---- MODULE Spec2Model ----
(***************************************************************************)
(* Model of fswatch (src/src/main.rs): a recursive directory watch whose   *)
(* notifications are normalized by process_event in per-notification       *)
(* tasks, relayed through a bounded tokio mpsc channel to a single writer   *)
(* task that batches records and commits them to SQLite in flush_records.   *)
(***************************************************************************)
EXTENDS Integers, Sequences, FiniteSets, TLC

\* ------------------------------------------------------------------ bounds
\* The program's channel capacity (main.rs:97) and flush threshold
\* (main.rs:137) are both 100; the model keeps the two as separate scaled
\* parameters so that a full channel and a size-triggered flush are reached.
ChannelCapacity == 1
BatchLimit == 2
\* Raw notifications the watch loop receives in one run.
MaxNotifications == 2
\* Latest wall-clock second read in one run.
MaxClock == 1
\* Paths attached to one raw notification, in the normalizer specification.
MaxPaths == 2
\* Runs of init_db against one store, in the schema specification.
MaxInits == 2
\* Rows written to the store, in the schema specification.
MaxRows == 2

\* --------------------------------------------------------------- variables
VARIABLES
    mainPc,      \* main: "init_db", "await_writer", "returned", "exited"
    watcherPc,   \* spawn_blocking watcher: "idle", "setup", "watching", "panicked"
    writerPc,    \* writer task: "idle", "select", "flush_tick", "flush_full", "panicked"
    dispatched,  \* notifications the watch loop has dispatched so far
    units,       \* per-notification task: [pc, event, pending]
    chan,        \* records queued in the mpsc channel
    buffer,      \* the writer's working set
    flushes,     \* flush_records invocations that have not returned: [pc, batch, todo, tx]
    store,       \* rows durably committed to file_events
    now,         \* the latest wall-clock time read, seconds
    db,          \* the store file: [exists, journal, tables]
    inits,       \* runs of init_db against the store so far
    dequeued,    \* history: ids of the records rx.recv() returned, in order
    handoffs,    \* history: ids of the records passed to flush_records, in order
    nPc,         \* normalizer specification: "ready", "done"
    nEvent,      \* normalizer specification: the raw notification
    nOut         \* normalizer specification: process_event's result

vars == <<mainPc, watcherPc, writerPc, dispatched, units, chan, buffer,
          flushes, store, now, db, inits, dequeued, handoffs, nPc, nEvent, nOut>>

pipeVars == <<mainPc, watcherPc, writerPc, dispatched, units, chan, buffer,
              flushes, store, now, db, inits, dequeued, handoffs>>

dbVars == <<db, inits>>

histVars == <<dequeued, handoffs>>

normVars == <<nPc, nEvent, nOut>>

\* ----------------------------------------------------------------- helpers
None == <<>>
Some(x) == <<x>>

Range(s) == {s[i] : i \in DOMAIN s}

RECURSIVE SeqsUpTo(_, _)
SeqsUpTo(S, n) ==
    IF n = 0 THEN {<<>>}
    ELSE LET shorter == SeqsUpTo(S, n - 1)
         IN  shorter \cup {Append(s, x) : s \in {t \in shorter : Len(t) = n - 1}, x \in S}

\* ------------------------------------------------- raw notifications, paths
\* notify::EventKind with the ModifyKind and RenameMode it nests.
Kind(k, m, r) == [kind |-> k, modify |-> m, rename |-> r]

EventKinds ==
    {Kind("Any", "-", "-"), Kind("Access", "-", "-"), Kind("Create", "-", "-"),
     Kind("Remove", "-", "-"), Kind("Other", "-", "-")}
    \cup {Kind("Modify", m, "-") : m \in {"Any", "Data", "Metadata", "Other"}}
    \cup {Kind("Modify", "Name", r) : r \in {"Any", "To", "From", "Both", "Other"}}

\* A path is a sequence of components; a component is an OsStr, which may or
\* may not be valid UTF-8.
Comp(b, u) == [bytes |-> b, utf8 |-> u]
DotDot == Comp("..", TRUE)

PathA == <<Comp("a.txt", TRUE)>>
PathB == <<Comp("dir", TRUE), Comp("b.txt", TRUE)>>
PathEmpty == <<>>
PathParent == <<Comp("dir", TRUE), DotDot>>
PathBadName == <<Comp("dir", TRUE), Comp("c.txt", FALSE)>>
PathBadDir == <<Comp("d", FALSE), Comp("a.txt", TRUE)>>

Paths == {PathA, PathB, PathEmpty, PathParent, PathBadName, PathBadDir}

\* Path::file_name: the final component, None for an empty path or one that
\* ends in "..".
file_name(path) ==
    IF path = <<>> \/ path[Len(path)] = DotDot THEN None
    ELSE Some(path[Len(path)])

\* OsStr::to_str: the text of a component, None when it is not valid UTF-8.
os_to_str(c) == IF c.utf8 THEN Some(c.bytes) ELSE None

\* Path::to_str: the text of the whole path, None when any component is not
\* valid UTF-8.
path_to_str(path) ==
    IF \A i \in DOMAIN path : path[i].utf8
    THEN Some([i \in DOMAIN path |-> path[i].bytes])
    ELSE None

\* Uuid::new_v4: a fresh identifier, here the pair (notification, path index).
new_v4(n, i) == <<n, i>>

\* The match without the metadata arm: a metadata update counts as "modify".
change_type_of_NoMetadataArm(kind) ==
    CASE kind.kind = "Create" -> "create"
      [] kind.kind = "Modify" ->
            (CASE kind.modify = "Name" /\ kind.rename = "From" -> "rename_from"
               [] kind.modify = "Name" /\ kind.rename = "To" -> "rename_to"
               [] kind.modify = "Name" /\ kind.rename = "Any" -> "renamed"
               [] OTHER -> "modify")
      [] kind.kind = "Remove" -> "remove"
      [] OTHER -> ""

\* The match on event.kind; "" stands for the early `return vec![]`.
change_type_of(kind) ==
    CASE kind.kind = "Create" -> "create"
      [] kind.kind = "Modify" ->
            (CASE kind.modify = "Metadata" -> ""
               [] kind.modify = "Name" /\ kind.rename = "From" -> "rename_from"
               [] kind.modify = "Name" /\ kind.rename = "To" -> "rename_to"
               [] kind.modify = "Name" /\ kind.rename = "Any" -> "renamed"
               [] OTHER -> "modify")
      [] kind.kind = "Remove" -> "remove"
      [] OTHER -> ""

\* The filter_map closure for the path at index i of notification n.
record_of(path, n, i, t, change_type) ==
    LET fname == file_name(path)
    IN  IF fname = None THEN None
        ELSE LET ftext == os_to_str(fname[1])
             IN  IF ftext = None THEN None
                 ELSE LET ptext == path_to_str(path)
                      IN  IF ptext = None THEN None
                          ELSE Some([id |-> new_v4(n, i),
                                     timestamp |-> t,
                                     change_type |-> change_type,
                                     path |-> ptext[1],
                                     file_name |-> ftext[1]])

\* The fan-out giving up at the first unusable path.
RECURSIVE collect_StopAtUnusable(_, _, _, _, _)
collect_StopAtUnusable(paths, n, i, t, change_type) ==
    IF i > Len(paths) \/ record_of(paths[i], n, i, t, change_type) = None THEN <<>>
    ELSE record_of(paths[i], n, i, t, change_type)
             \o collect_StopAtUnusable(paths, n, i + 1, t, change_type)

RECURSIVE collect(_, _, _, _, _)
collect(paths, n, i, t, change_type) ==
    IF i > Len(paths) THEN <<>>
    ELSE record_of(paths[i], n, i, t, change_type) \o collect(paths, n, i + 1, t, change_type)

\* process_event for notification number n normalized at time t.
process_event(event, n, t) ==
    LET change_type == change_type_of(event.kind)
    IN  IF change_type = "" THEN <<>>
        ELSE collect(event.paths, n, 1, t, change_type)

\* ------------------------------------------------------------ the pipeline
\* The raw notifications the watch delivers in the pipeline specification.
Event(k, ps) == [kind |-> k, paths |-> ps]
NoEvent == Event(Kind("Other", "-", "-"), <<>>)

PipelineEvents ==
    {Event(Kind("Create", "-", "-"), <<PathBadName, PathA>>),
     Event(Kind("Modify", "Data", "-"), <<PathA, PathB>>),
     Event(Kind("Modify", "Metadata", "-"), <<PathA>>)}

Units == 1 .. MaxNotifications

Running == mainPc = "await_writer"
Alive == mainPc \in {"await_writer", "returned"}

\* The Receiver lives in the writer task and is dropped with it.
ReceiverOpen == writerPc \in {"select", "flush_tick", "flush_full"}

\* A Sender is alive: the watcher closure holds the original, every task that
\* has not finished holds a clone.
SendersOpen ==
    \/ watcherPc \in {"setup", "watching"}
    \/ \E u \in Units : units[u].pc \in {"spawned", "sending"}

\* flush_records invocations that have started and not yet ended.
InFlight == {i \in DOMAIN flushes : flushes[i].pc \in {"open", "insert", "commit"}}

\* The file_events table of the CREATE TABLE statement (main.rs:45-51).
Column(n, t, c) == [name |-> n, type |-> t, constraint |-> c]

FileEvents ==
    [name |-> "file_events",
     columns |-> <<Column("id", "TEXT", "PRIMARY KEY"),
                   Column("timestamp", "INTEGER", "NOT NULL"),
                   Column("change_type", "TEXT", "NOT NULL"),
                   Column("path", "TEXT", "NOT NULL"),
                   Column("file_name", "TEXT", "NOT NULL")>>]

\* A store path with no file behind it yet.
FreshDb == [exists |-> FALSE, journal |-> "delete", tables |-> {}]

\* init_db that drops and recreates the table on every run.
init_db_Recreate(file, rows) ==
    [file |-> [exists |-> TRUE,
               journal |-> "wal",
               tables |-> {t \in file.tables : t.name # "file_events"} \cup {FileEvents}],
     rows |-> <<>>]

\* main.rs:41-54: init_db on the store file and its file_events rows:
\* Connection::open creates the file, PRAGMA journal_mode = WAL, and CREATE
\* TABLE IF NOT EXISTS adds the table unless one of that name is there.
init_db(file, rows) ==
    [file |-> [exists |-> TRUE,
               journal |-> "wal",
               tables |-> IF \E t \in file.tables : t.name = "file_events"
                          THEN file.tables
                          ELSE file.tables \cup {FileEvents}],
     rows |-> rows]

\* main.rs:95: init_db succeeds; the channel is created and both tasks are spawned.
InitDbOk ==
    /\ mainPc = "init_db"
    /\ mainPc' = "await_writer"
    /\ watcherPc' = "setup"
    /\ writerPc' = "select"
    /\ db' = init_db(db, store).file
    /\ store' = init_db(db, store).rows
    /\ inits' = inits + 1
    /\ UNCHANGED <<dispatched, units, chan, buffer, flushes, now, normVars, histVars>>

\* main.rs:95: init_db fails and `?` returns the error from main.
InitDbFail ==
    /\ mainPc = "init_db"
    /\ mainPc' = "returned"
    /\ UNCHANGED <<watcherPc, writerPc, dispatched, units, chan, buffer, flushes,
                   store, now, normVars,
                   dbVars, histVars>>

\* main.rs:104-108: the watcher is built and the root is watched.
WatchSetupOk ==
    /\ Alive
    /\ watcherPc = "setup"
    /\ watcherPc' = "watching"
    /\ UNCHANGED <<mainPc, writerPc, dispatched, units, chan, buffer, flushes,
                   store, now, normVars,
                   dbVars, histVars>>

\* main.rs:104-108: RecommendedWatcher::new or watch() fails; unwrap panics in
\* the blocking thread, whose JoinHandle nobody holds. The closure's Sender is
\* dropped.
WatchSetupFail ==
    /\ Alive
    /\ watcherPc = "setup"
    /\ watcherPc' = "panicked"
    /\ UNCHANGED <<mainPc, writerPc, dispatched, units, chan, buffer, flushes,
                   store, now, normVars,
                   dbVars, histVars>>

\* A watch loop that sends on the channel itself (blocking_send): it takes
\* the next notification only when the channel has room.
WatchDispatch_Blocking(e) ==
    /\ Alive
    /\ watcherPc = "watching"
    /\ dispatched < MaxNotifications
    /\ Len(chan) < ChannelCapacity
    /\ dispatched' = dispatched + 1
    /\ units' = [units EXCEPT ![dispatched + 1] =
                    [pc |-> IF Running THEN "spawned" ELSE "cancelled",
                     event |-> e, pending |-> <<>>]]
    /\ UNCHANGED <<mainPc, watcherPc, writerPc, chan, buffer, flushes, store,
                   now, normVars, dbVars, histVars>>

\* main.rs:110-118: the watch loop receives a notification and spawns a task
\* for it. Once main has returned the runtime is shutting down and a spawned
\* task is dropped at once.
WatchDispatch(e) ==
    /\ Alive
    /\ watcherPc = "watching"
    /\ dispatched < MaxNotifications
    /\ dispatched' = dispatched + 1
    /\ units' = [units EXCEPT ![dispatched + 1] =
                    [pc |-> IF Running THEN "spawned" ELSE "cancelled",
                     event |-> e, pending |-> <<>>]]
    /\ UNCHANGED <<mainPc, watcherPc, writerPc, chan, buffer, flushes, store,
                   now, normVars,
                   dbVars, histVars>>

\* main.rs:113: the dispatched task runs process_event, which reads the wall
\* clock (main.rs:80); t is the time it reads, no earlier than the last one read.
UnitNormalize(u, t) ==
    /\ Alive
    /\ units[u].pc = "spawned"
    /\ t >= now
    /\ now' = t
    /\ LET events == process_event(units[u].event, u, t)
       IN  units' = [units EXCEPT ![u].pending = events,
                                  ![u].pc = IF events = <<>> THEN "done" ELSE "sending"]
    /\ UNCHANGED <<mainPc, watcherPc, writerPc, dispatched, chan, buffer, flushes,
                   store, normVars,
                   dbVars, histVars>>

\* A send into an unbounded channel: it completes whatever the channel holds.
UnitSend_NoCapacity(u) ==
    /\ Alive
    /\ units[u].pc = "sending"
    /\ ReceiverOpen
    /\ chan' = Append(chan, Head(units[u].pending))
    /\ units' = [units EXCEPT ![u].pending = Tail(@),
                              ![u].pc = IF Tail(units[u].pending) = <<>>
                                        THEN "done" ELSE "sending"]
    /\ UNCHANGED <<mainPc, watcherPc, writerPc, dispatched, buffer, flushes, store,
                   now, normVars, dbVars, histVars>>

\* A send that does not wait for room (try_send): a record that finds the
\* channel full is discarded.
UnitSend_DropWhenFull(u) ==
    /\ Alive
    /\ units[u].pc = "sending"
    /\ ReceiverOpen
    /\ chan' = IF Len(chan) < ChannelCapacity
               THEN Append(chan, Head(units[u].pending)) ELSE chan
    /\ units' = [units EXCEPT ![u].pending = Tail(@),
                              ![u].pc = IF Tail(units[u].pending) = <<>>
                                        THEN "done" ELSE "sending"]
    /\ UNCHANGED <<mainPc, watcherPc, writerPc, dispatched, buffer, flushes, store,
                   now, normVars,
                   dbVars, histVars>>

\* main.rs:115: tx.send(record).await completes once the channel has room.
UnitSend(u) ==
    /\ Alive
    /\ units[u].pc = "sending"
    /\ ReceiverOpen
    /\ Len(chan) < ChannelCapacity
    /\ chan' = Append(chan, Head(units[u].pending))
    /\ units' = [units EXCEPT ![u].pending = Tail(@),
                              ![u].pc = IF Tail(units[u].pending) = <<>>
                                        THEN "done" ELSE "sending"]
    /\ UNCHANGED <<mainPc, watcherPc, writerPc, dispatched, buffer, flushes, store,
                   now, normVars,
                   dbVars, histVars>>

\* A failed send that aborts the process' tasks: every task still running
\* and the watch loop go down with the one whose send failed.
UnitSendFail_Abort(u) ==
    /\ Alive
    /\ units[u].pc = "sending"
    /\ ~ReceiverOpen
    /\ units' = [v \in Units |->
                    IF units[v].pc \in {"spawned", "sending"}
                    THEN [units[v] EXCEPT !.pc = "panicked"] ELSE units[v]]
    /\ watcherPc' = "panicked"
    /\ UNCHANGED <<mainPc, writerPc, dispatched, chan, buffer, flushes,
                   store, now, normVars, dbVars, histVars>>

\* main.rs:115: the Receiver is gone, send returns Err and unwrap panics the task.
UnitSendFail(u) ==
    /\ Alive
    /\ units[u].pc = "sending"
    /\ ~ReceiverOpen
    /\ units' = [units EXCEPT ![u].pc = "panicked"]
    /\ UNCHANGED <<mainPc, watcherPc, writerPc, dispatched, chan, buffer, flushes,
                   store, now, normVars,
                   dbVars, histVars>>

\* main.rs:152-155: flush_records hands the batch to a blocking task.
flush_records(records) ==
    Append(flushes, [pc |-> "open", batch |-> records, todo |-> records, tx |-> <<>>])

\* The ids of a sequence of records, in order.
IdSeq(records) == [k \in DOMAIN records |-> records[k].id]

\* The tick branch missing: the loop only ever flushes on the threshold.
TimerFire_Never ==
    /\ Running
    /\ writerPc = "select"
    /\ UNCHANGED vars

\* The tick branch spawning the flush without awaiting it.
TimerFire_NoAwait ==
    /\ Running
    /\ writerPc = "select"
    /\ IF buffer /= <<>>
       THEN /\ flushes' = flush_records(buffer)
            /\ handoffs' = handoffs \o IdSeq(buffer)
            /\ buffer' = <<>>
       ELSE UNCHANGED <<flushes, buffer, handoffs>>
    /\ UNCHANGED <<mainPc, watcherPc, writerPc, dispatched, units, chan, store, now,
                   normVars, dbVars, dequeued>>

\* The tick branch flushing a copy of the working set without emptying it.
TimerFire_KeepBuffer ==
    /\ Running
    /\ writerPc = "select"
    /\ IF buffer /= <<>>
       THEN /\ flushes' = flush_records(buffer)
            /\ handoffs' = handoffs \o IdSeq(buffer)
            /\ writerPc' = "flush_tick"
       ELSE UNCHANGED <<flushes, writerPc, handoffs>>
    /\ UNCHANGED <<mainPc, watcherPc, dispatched, units, chan, buffer, store, now,
                   normVars, dbVars, dequeued>>

\* The tick branch without the is_empty test: every tick flushes.
TimerFire_Unconditional ==
    /\ Running
    /\ writerPc = "select"
    /\ flushes' = flush_records(buffer)
    /\ handoffs' = handoffs \o IdSeq(buffer)
    /\ buffer' = <<>>
    /\ writerPc' = "flush_tick"
    /\ UNCHANGED <<mainPc, watcherPc, dispatched, units, chan, store, now, normVars,
                   dbVars, dequeued>>

\* main.rs:128-134: the tick branch of select!.
TimerFire ==
    /\ Running
    /\ writerPc = "select"
    /\ IF buffer /= <<>>
       THEN /\ flushes' = flush_records(buffer)
            /\ handoffs' = handoffs \o IdSeq(buffer)
            /\ buffer' = <<>>
            /\ writerPc' = "flush_tick"
       ELSE UNCHANGED <<flushes, buffer, writerPc, handoffs>>
    /\ UNCHANGED <<mainPc, watcherPc, dispatched, units, chan, store, now, normVars,
                   dbVars, dequeued>>

\* A receive that does not wait for the flush in progress: the loop keeps
\* accumulating while flush_records runs.
WriterRecv_DuringFlush ==
    /\ Running
    /\ ReceiverOpen
    /\ chan /= <<>>
    /\ chan' = Tail(chan)
    /\ dequeued' = Append(dequeued, Head(chan).id)
    /\ LET pushed == Append(buffer, Head(chan))
       IN  IF Len(pushed) >= BatchLimit
           THEN /\ flushes' = flush_records(pushed)
                /\ handoffs' = handoffs \o IdSeq(pushed)
                /\ buffer' = <<>>
                /\ writerPc' = "flush_full"
           ELSE /\ buffer' = pushed
                /\ UNCHANGED <<flushes, writerPc, handoffs>>
    /\ UNCHANGED <<mainPc, watcherPc, dispatched, units, store, now, normVars, dbVars>>

\* The recv branch with the threshold test off by one (`>` for `>=`).
WriterRecv_LateThreshold ==
    /\ Running
    /\ writerPc = "select"
    /\ chan /= <<>>
    /\ chan' = Tail(chan)
    /\ dequeued' = Append(dequeued, Head(chan).id)
    /\ LET pushed == Append(buffer, Head(chan))
       IN  IF Len(pushed) > BatchLimit
           THEN /\ flushes' = flush_records(pushed)
                /\ handoffs' = handoffs \o IdSeq(pushed)
                /\ buffer' = <<>>
                /\ writerPc' = "flush_full"
           ELSE /\ buffer' = pushed
                /\ UNCHANGED <<flushes, writerPc, handoffs>>
    /\ UNCHANGED <<mainPc, watcherPc, dispatched, units, store, now, normVars, dbVars>>

\* main.rs:135-143: the recv branch of select!.
WriterRecv ==
    /\ Running
    /\ writerPc = "select"
    /\ chan /= <<>>
    /\ chan' = Tail(chan)
    /\ dequeued' = Append(dequeued, Head(chan).id)
    /\ LET pushed == Append(buffer, Head(chan))
       IN  IF Len(pushed) >= BatchLimit
           THEN /\ flushes' = flush_records(pushed)
                /\ handoffs' = handoffs \o IdSeq(pushed)
                /\ buffer' = <<>>
                /\ writerPc' = "flush_full"
           ELSE /\ buffer' = pushed
                /\ UNCHANGED <<flushes, writerPc, handoffs>>
    /\ UNCHANGED <<mainPc, watcherPc, dispatched, units, store, now, normVars, dbVars>>

\* A loop that ends when recv yields None (`None => break`).
WriterRecvClosed_Break ==
    /\ Running
    /\ writerPc = "select"
    /\ ~SendersOpen
    /\ chan = <<>>
    /\ writerPc' = "ended"
    /\ UNCHANGED <<mainPc, watcherPc, dispatched, units, chan, buffer, flushes, store,
                   now, normVars, dbVars, histVars>>

\* main.rs:135: every Sender is dropped and the channel is empty, so
\* rx.recv() yields None; the pattern `Some(record)` does not match, the
\* branch is disabled and select! goes on waiting for the tick.
WriterRecvClosed ==
    /\ Running
    /\ writerPc = "select"
    /\ ~SendersOpen
    /\ chan = <<>>
    /\ UNCHANGED vars

\* main.rs:156-157: Connection::open and unchecked_transaction succeed.
FlushOpen(i) ==
    /\ Alive
    /\ flushes[i].pc = "open"
    /\ flushes' = [flushes EXCEPT ![i].pc = "insert"]
    /\ UNCHANGED <<mainPc, watcherPc, writerPc, dispatched, units, chan, buffer,
                   store, now, normVars,
                   dbVars, histVars>>

\* The insert loop walking the batch from its end.
FlushInsert_Reverse(i) ==
    /\ Alive
    /\ flushes[i].pc = "insert"
    /\ flushes[i].todo /= <<>>
    /\ LET todo == flushes[i].todo
       IN  flushes' = [flushes EXCEPT ![i].tx = Append(@, todo[Len(todo)]),
                                      ![i].todo = SubSeq(todo, 1, Len(todo) - 1),
                                      ![i].pc = IF Len(todo) = 1
                                                THEN "commit" ELSE "insert"]
    /\ UNCHANGED <<mainPc, watcherPc, writerPc, dispatched, units, chan, buffer,
                   store, now, normVars, dbVars, histVars>>

\* main.rs:159-172: one INSERT inside the transaction; after the last one the
\* loop ends.
FlushInsert(i) ==
    /\ Alive
    /\ flushes[i].pc = "insert"
    /\ flushes[i].todo /= <<>>
    /\ flushes' = [flushes EXCEPT ![i].tx = Append(@, Head(flushes[i].todo)),
                                  ![i].todo = Tail(@),
                                  ![i].pc = IF Tail(flushes[i].todo) = <<>>
                                            THEN "commit" ELSE "insert"]
    /\ UNCHANGED <<mainPc, watcherPc, writerPc, dispatched, units, chan, buffer,
                   store, now, normVars,
                   dbVars, histVars>>

\* main.rs:174: COMMIT makes the transaction's rows durable.
FlushCommit(i) ==
    /\ Alive
    /\ flushes[i].pc = "commit"
    /\ store' = store \o flushes[i].tx
    /\ flushes' = [flushes EXCEPT ![i].pc = "done", ![i].tx = <<>>]
    /\ UNCHANGED <<mainPc, watcherPc, writerPc, dispatched, units, chan, buffer,
                   now, normVars,
                   dbVars, histVars>>

\* A fault that leaves the rows inserted so far in the store, as with
\* inserts made outside a transaction.
FlushFault_NoRollback(i) ==
    /\ Alive
    /\ flushes[i].pc \in {"open", "insert", "commit"}
    /\ store' = store \o flushes[i].tx
    /\ flushes' = [flushes EXCEPT ![i].pc = "panicked", ![i].tx = <<>>]
    /\ UNCHANGED <<mainPc, watcherPc, writerPc, dispatched, units, chan, buffer,
                   now, normVars,
                   dbVars, histVars>>

\* main.rs:156-174: open, begin, an insert or the commit fails and unwrap
\* panics; unwinding drops the Transaction, which rolls back.
FlushFault(i) ==
    /\ Alive
    /\ flushes[i].pc \in {"open", "insert", "commit"}
    /\ flushes' = [flushes EXCEPT ![i].pc = "panicked", ![i].tx = <<>>]
    /\ UNCHANGED <<mainPc, watcherPc, writerPc, dispatched, units, chan, buffer,
                   store, now, normVars,
                   dbVars, histVars>>

\* main.rs:132,140-141,176-177: the awaited blocking task returned and
\* flush_records with it; the recv branch then clears the (new, empty) buffer.
WriterFlushJoin ==
    /\ Running
    /\ writerPc \in {"flush_tick", "flush_full"}
    /\ flushes[Len(flushes)].pc = "done"
    /\ flushes' = SubSeq(flushes, 1, Len(flushes) - 1)
    /\ buffer' = IF writerPc = "flush_full" THEN <<>> ELSE buffer
    /\ writerPc' = "select"
    /\ UNCHANGED <<mainPc, watcherPc, dispatched, units, chan, store, now, normVars,
                   dbVars, histVars>>

\* main.rs:176-177: the awaited blocking task panicked; unwrap of the
\* JoinError panics the writer task, dropping the Receiver and what it holds.
WriterFlushPanic ==
    /\ Running
    /\ writerPc \in {"flush_tick", "flush_full"}
    /\ flushes[Len(flushes)].pc = "panicked"
    /\ writerPc' = "panicked"
    /\ chan' = <<>>
    /\ buffer' = <<>>
    /\ UNCHANGED <<mainPc, watcherPc, dispatched, units, flushes, store, now,
                   normVars,
                   dbVars, histVars>>

\* main.rs:147: the writer's JoinHandle yields a JoinError and `?` returns it
\* from main; the runtime shuts down and drops every task that has not finished.
MainJoinErr ==
    /\ mainPc = "await_writer"
    /\ writerPc = "panicked"
    /\ mainPc' = "returned"
    /\ units' = [u \in Units |->
                    IF units[u].pc \in {"spawned", "sending"}
                    THEN [units[u] EXCEPT !.pc = "cancelled"] ELSE units[u]]
    /\ UNCHANGED <<watcherPc, writerPc, dispatched, chan, buffer, flushes, store,
                   now, normVars,
                   dbVars, histVars>>

\* #[tokio::main] (main.rs:92): dropping the runtime waits for every
\* spawn_blocking closure to return, then the process exits.
ProcessExit ==
    /\ mainPc = "returned"
    /\ watcherPc \in {"idle", "panicked"}
    /\ InFlight = {}
    /\ mainPc' = "exited"
    /\ UNCHANGED <<watcherPc, writerPc, dispatched, units, chan, buffer, flushes,
                   store, now, normVars,
                   dbVars, histVars>>

Init ==
    /\ mainPc = "init_db"
    /\ watcherPc = "idle"
    /\ writerPc = "idle"
    /\ dispatched = 0
    /\ units = [u \in Units |-> [pc |-> "none", event |-> NoEvent, pending |-> <<>>]]
    /\ chan = <<>>
    /\ buffer = <<>>
    /\ flushes = <<>>
    /\ store = <<>>
    /\ now = 0
    /\ db = FreshDb
    /\ inits = 0
    /\ dequeued = <<>>
    /\ handoffs = <<>>
    /\ nPc = "done"
    /\ nEvent = NoEvent
    /\ nOut = <<>>

\* Every step but the normalization of a dispatched notification.
OtherStep ==
    \/ InitDbOk
    \/ InitDbFail
    \/ WatchSetupOk
    \/ WatchSetupFail
    \/ \E e \in PipelineEvents : WatchDispatch(e)
    \/ \E u \in Units : UnitSend(u)
    \/ \E u \in Units : UnitSendFail(u)
    \/ TimerFire
    \/ WriterRecv
    \/ WriterRecvClosed
    \/ \E i \in DOMAIN flushes : FlushOpen(i)
    \/ \E i \in DOMAIN flushes : FlushInsert(i)
    \/ \E i \in DOMAIN flushes : FlushCommit(i)
    \/ \E i \in DOMAIN flushes : FlushFault(i)
    \/ WriterFlushJoin
    \/ WriterFlushPanic
    \/ MainJoinErr
    \/ ProcessExit

\* The pipeline within one second of wall-clock time: every normalization
\* reads the same second.
Next ==
    \/ OtherStep
    \/ \E u \in Units : UnitNormalize(u, now)

\* The pipeline with the wall clock advancing between normalizations.
TimedNext ==
    \/ OtherStep
    \/ \E u \in Units, t \in 0 .. MaxClock : UnitNormalize(u, t)

Spec == Init /\ [][Next]_vars

TimedSpec == Init /\ [][TimedNext]_vars

\* Scheduling the code relies on: the runtime runs every ready task, a
\* blocking closure runs to its end, the interval keeps ticking. Faults and
\* the arrival of raw notifications are not forced.
FlushStep == \E i \in DOMAIN flushes : FlushOpen(i) \/ FlushInsert(i) \/ FlushCommit(i)

FairSpec ==
    /\ Spec
    /\ WF_vars(InitDbOk \/ InitDbFail)
    /\ WF_vars(WatchSetupOk \/ WatchSetupFail)
    /\ WF_vars(\E u \in Units : UnitNormalize(u, now))
    /\ WF_vars(\E u \in Units : UnitSend(u))
    /\ WF_vars(\E u \in Units : UnitSendFail(u))
    /\ WF_vars(TimerFire)
    /\ WF_vars(WriterRecv)
    /\ WF_vars(FlushStep)
    /\ WF_vars(WriterFlushJoin)
    /\ WF_vars(WriterFlushPanic)
    /\ WF_vars(MainJoinErr)
    /\ WF_vars(ProcessExit)

\* ------------------------------------------- the normalizer specification
\* process_event applied to one raw notification drawn from a bounded set.
NormEvents == {Event(k, ps) : k \in EventKinds, ps \in SeqsUpTo(Paths, MaxPaths)}

NormInit ==
    /\ mainPc = "init_db"
    /\ watcherPc = "idle"
    /\ writerPc = "idle"
    /\ dispatched = 0
    /\ units = [u \in Units |-> [pc |-> "none", event |-> NoEvent, pending |-> <<>>]]
    /\ chan = <<>>
    /\ buffer = <<>>
    /\ flushes = <<>>
    /\ store = <<>>
    /\ now = 0
    /\ db = FreshDb
    /\ inits = 0
    /\ dequeued = <<>>
    /\ handoffs = <<>>
    /\ nPc = "ready"
    /\ nEvent \in NormEvents
    /\ nOut = <<>>

\* main.rs:113: let events = process_event(event).
Normalize(t) ==
    /\ nPc = "ready"
    /\ nOut' = process_event(nEvent, 1, t)
    /\ nPc' = "done"
    /\ UNCHANGED <<nEvent, pipeVars>>

NormNext == \E t \in 0 .. MaxClock : Normalize(t)

NormSpec == NormInit /\ [][NormNext]_vars

\* ------------------------------------------------ the schema specification
\* init_db run repeatedly against one store path, with rows written between
\* the runs.
OtherTable == [name |-> "notes", columns |-> <<Column("body", "TEXT", "")>>]

\* The rows flush_records can insert.
DbRows == UNION {Range(process_event(e, u, 0)) : e \in PipelineEvents, u \in Units}

DbInit ==
    /\ mainPc = "init_db"
    /\ watcherPc = "idle"
    /\ writerPc = "idle"
    /\ dispatched = 0
    /\ units = [u \in Units |-> [pc |-> "none", event |-> NoEvent, pending |-> <<>>]]
    /\ chan = <<>>
    /\ buffer = <<>>
    /\ flushes = <<>>
    /\ store = <<>>
    /\ now = 0
    /\ db \in {FreshDb, [exists |-> TRUE, journal |-> "delete", tables |-> {OtherTable}]}
    /\ inits = 0
    /\ dequeued = <<>>
    /\ handoffs = <<>>
    /\ nPc = "done"
    /\ nEvent = NoEvent
    /\ nOut = <<>>

\* main.rs:95: one run of the program calls init_db on the store path.
DbInitRun ==
    /\ inits < MaxInits
    /\ db' = init_db(db, store).file
    /\ store' = init_db(db, store).rows
    /\ inits' = inits + 1
    /\ UNCHANGED <<mainPc, watcherPc, writerPc, dispatched, units, chan, buffer,
                   flushes, now, normVars, histVars>>

\* main.rs:160-174: a committed INSERT adds a row; the id is the primary key.
DbWrite(row) ==
    /\ \E t \in db.tables : t.name = "file_events"
    /\ Len(store) < MaxRows
    /\ \A k \in DOMAIN store : store[k].id # row.id
    /\ store' = Append(store, row)
    /\ UNCHANGED <<mainPc, watcherPc, writerPc, dispatched, units, chan, buffer,
                   flushes, now, normVars, dbVars, histVars>>

DbNext ==
    \/ DbInitRun
    \/ \E row \in DbRows : DbWrite(row)

DbSpec == DbInit /\ [][DbNext]_vars

\* ------------------------------------------------------------------ claims

\* C1: every batch handed to flush_records holds at most BatchLimit records
\* (the program's 100), and the working set never holds more than that.
C1_BatchBound ==
    /\ Len(buffer) <= BatchLimit
    /\ \A i \in DOMAIN flushes : Len(flushes[i].batch) <= BatchLimit

\* A size-triggered handoff: the recv branch handed off a full batch.
C1_Witness ==
    /\ writerPc = "flush_full"
    /\ Len(flushes[Len(flushes)].batch) = BatchLimit

\* C4: batch commit is atomic: of the rows of a batch whose flush is in
\* progress or has ended by a fault, none is in the store; of a batch whose
\* flush has committed, all are. No strict non-empty subset is ever durable.
C4_AtomicBatch ==
    \A i \in DOMAIN flushes :
        LET rows == Range(flushes[i].batch)
        IN  /\ rows \cap Range(store) \in {{}, rows}
            /\ flushes[i].pc = "done" => rows \subseteq Range(store)
            /\ flushes[i].pc # "done" => rows \cap Range(store) = {}

\* A fault in the middle of a batch: some rows were inserted, some were not.
C4_Witness ==
    \E i \in DOMAIN flushes :
        /\ flushes[i].pc = "panicked"
        /\ 0 < Len(flushes[i].todo)
        /\ Len(flushes[i].todo) < Len(flushes[i].batch)

\* C7: at most one flush_records invocation is in flight at any time.
C7_SingleFlight == Cardinality(InFlight) <= 1 /\ Len(flushes) <= 1

\* A flush in flight while producers have filled the channel behind it.
C7_Witness ==
    /\ Cardinality(InFlight) = 1
    /\ Len(chan) = ChannelCapacity

\* Identifiers of the records one run can produce.
RecordIds == {new_v4(u, i) : u \in Units, i \in 1 .. MaxPaths}

IdsOf(records) == {records[k].id : k \in DOMAIN records}

InBuffer(id) == id \in IdsOf(buffer)
InStore(id) == id \in IdsOf(store)
HandedOff(id) == InStore(id) \/ \E i \in DOMAIN flushes : id \in IdsOf(flushes[i].batch)
Produced(id) == \E u \in Units : id \in IdsOf(units[u].pending)

\* A flush has failed: the Persistence Writer's fault.
WriterFault == \E i \in DOMAIN flushes : flushes[i].pc = "panicked"

\* C2: a handled timer fire hands off the whole working set and leaves it
\* empty, and every record appended to the working set is eventually handed
\* off, even when no further record arrives.
C2_BoundedStaleness ==
    /\ [][TimerFire =>
            /\ buffer' = <<>>
            /\ \A id \in IdsOf(buffer) :
                  \E i \in DOMAIN flushes' : id \in IdsOf(flushes'[i].batch)]_vars
    /\ \A id \in RecordIds : InBuffer(id) ~> HandedOff(id)

\* The timer handed off a batch smaller than the threshold while the channel
\* was empty and every dispatched task had finished: no arrival could have
\* flushed it.
C2_Witness ==
    /\ writerPc = "flush_tick"
    /\ Len(flushes[Len(flushes)].batch) < BatchLimit
    /\ chan = <<>>
    /\ dispatched = MaxNotifications
    /\ \A u \in Units : units[u].pc = "done"

\* C3: unless a flush fails, every record the normalizer produced is
\* eventually committed to the store; a full channel delays, never discards.
C3_NoRecordLost ==
    \A id \in RecordIds : Produced(id) ~> (InStore(id) \/ WriterFault)

\* More records than the channel holds went through it and are all stored.
C3_Witness ==
    /\ ~WriterFault
    /\ Len(store) > ChannelCapacity
    /\ \A u \in Units : units[u].pc = "done"
    /\ chan = <<>> /\ buffer = <<>> /\ flushes = <<>>

\* C5: a failed watch setup is fatal: the process terminates.
C5_WatchFailureFatal == (watcherPc = "panicked") ~> (mainPc = "exited")

\* C6: a failed flush is fatal to the process: the accumulator loop has
\* stopped for good, nothing is handed off or committed afterwards, and the
\* process terminates.
C6_FlushFailureFatal ==
    /\ [][WriterFault => (store' = store /\ Len(flushes') <= Len(flushes))]_vars
    /\ [][writerPc = "panicked" => writerPc' = "panicked"]_vars
    /\ WriterFault ~> (mainPc = "exited")

\* Records of notification u anywhere downstream of its normalization.
Downstream(u) ==
    {r \in Range(units[u].pending) \cup Range(chan) \cup Range(buffer) \cup Range(store)
           \cup UNION {Range(flushes[i].batch) : i \in DOMAIN flushes} : r.id[1] = u}

Dropped(kind) ==
    \/ kind.kind \notin {"Create", "Modify", "Remove"}
    \/ kind.kind = "Modify" /\ kind.modify = "Metadata"

\* C9: process_event returns the empty sequence for a metadata-only
\* modification and for every kind other than create, modify and remove,
\* whatever the paths; no record of such a notification is in a task's
\* pending list, the channel, the working set, a batch or the store. (The
\* first conjunct does not depend on the state and is evaluated once, in
\* the initial state.)
C9_DroppedKinds ==
    /\ mainPc = "init_db" =>
          \A e \in NormEvents : \A t \in 0 .. MaxClock :
              Dropped(e.kind) => process_event(e, 1, t) = <<>>
    /\ \A u \in Units :
          (units[u].pc # "none" /\ Dropped(units[u].event.kind)) => Downstream(u) = {}

\* A metadata notification with a usable path was normalized to nothing while
\* another notification's records went on to the store.
C9_Witness ==
    \E u \in Units :
        /\ units[u].pc = "done"
        /\ units[u].event.kind.modify = "Metadata"
        /\ units[u].event.paths # <<>>
        /\ store # <<>>

\* ------------------------------------------ claims about process_event alone
Tags == {"create", "modify", "remove", "rename_from", "rename_to", "renamed"}

TagsOf(records) == {records[k].change_type : k \in DOMAIN records}

\* C8: the old-name half of a rename yields rename_from only, the new-name
\* half rename_to only, and a rename reported as one notification (mode Any,
\* or Both with the old and the new path) yields renamed only.
C8_RenameClassification ==
    (nPc = "done" /\ nEvent.kind.kind = "Modify" /\ nEvent.kind.modify = "Name") =>
        /\ nEvent.kind.rename = "From" => TagsOf(nOut) \subseteq {"rename_from"}
        /\ nEvent.kind.rename = "To" => TagsOf(nOut) \subseteq {"rename_to"}
        /\ nEvent.kind.rename \in {"Any", "Both"} => TagsOf(nOut) \subseteq {"renamed"}

\* A path the filter_map closure keeps: it has a final segment and is text.
Usable(path) ==
    /\ path # <<>>
    /\ path[Len(path)] # DotDot
    /\ \A i \in DOMAIN path : path[i].utf8

UsableIndexes(paths) == {i \in DOMAIN paths : Usable(paths[i])}

\* The index in paths of the k-th usable path.
NthUsable(paths, k) ==
    CHOOSE i \in UsableIndexes(paths) :
        Cardinality({j \in UsableIndexes(paths) : j < i}) = k - 1

\* The tag section 4.1 of the design gives a kind, where it names one.
ExpectedTags(kind) ==
    CASE kind.kind = "Create" -> {"create"}
      [] kind.kind = "Remove" -> {"remove"}
      [] kind.kind = "Modify" /\ kind.modify = "Data" -> {"modify"}
      [] kind.kind = "Modify" /\ kind.modify = "Name" /\ kind.rename = "From" -> {"rename_from"}
      [] kind.kind = "Modify" /\ kind.modify = "Name" /\ kind.rename = "To" -> {"rename_to"}
      [] kind.kind = "Modify" /\ kind.modify = "Name" /\ kind.rename = "Any" -> {"renamed"}
      [] OTHER -> Tags

\* C10: for a recorded kind the result holds exactly one record per usable
\* path, in path order, none for the others; its ids are pairwise distinct,
\* its change_type is the notification's and one of the six tags, and its
\* file_name is the final segment of its path.
C10_FanOut ==
    (nPc = "done" /\ ~Dropped(nEvent.kind)) =>
        /\ Len(nOut) = Cardinality(UsableIndexes(nEvent.paths))
        /\ \A k \in DOMAIN nOut :
              LET path == nEvent.paths[NthUsable(nEvent.paths, k)]
              IN  /\ nOut[k].path = [i \in DOMAIN path |-> path[i].bytes]
                  /\ nOut[k].file_name = path[Len(path)].bytes
                  /\ nOut[k].file_name = nOut[k].path[Len(nOut[k].path)]
                  /\ nOut[k].change_type \in ExpectedTags(nEvent.kind)
        /\ Cardinality(TagsOf(nOut)) <= 1
        /\ \A j, k \in DOMAIN nOut : j # k => nOut[j].id # nOut[k].id

\* An unusable path ahead of a usable one: the first is skipped, the second kept.
C10_Witness ==
    /\ nPc = "done"
    /\ ~Dropped(nEvent.kind)
    /\ Len(nEvent.paths) = MaxPaths
    /\ ~Usable(nEvent.paths[1])
    /\ Usable(nEvent.paths[Len(nEvent.paths)])
    /\ Len(nOut) >= 1

\* Every record that exists in a state, wherever it is held.
Records ==
    UNION {Range(units[u].pending) : u \in Units}
        \cup Range(chan) \cup Range(buffer) \cup Range(store)
        \cup UNION {Range(flushes[i].batch) : i \in DOMAIN flushes}

\* The position of a record's notification in the order the watch loop
\* received them.
Detected(r) == r.id[1]

\* C11: timestamps reflect detection order: a record of a notification the
\* watch loop received earlier never carries a later timestamp than a record
\* of one it received later, however the normalization tasks interleave.
C11_TimestampOrder ==
    \A a, b \in Records : Detected(a) < Detected(b) => a.timestamp <= b.timestamp

IsPrefix(s, t) == Len(s) <= Len(t) /\ SubSeq(t, 1, Len(s)) = s

\* The ids of the records whose send has completed, in completion order:
\* those the writer has dequeued, then those still queued.
Sent == dequeued \o IdSeq(chan)

C13_NoEmptyFlush ==
    /\ [](\A i \in DOMAIN flushes : flushes[i].batch # <<>>)
    /\ [][(writerPc = "select" /\ buffer = <<>> /\ dequeued' = dequeued) =>
             /\ buffer' = <<>>
             /\ flushes' = flushes
             /\ handoffs' = handoffs
             /\ store' = store
             /\ writerPc' = "select"]_vars

\* The timer can fire on an empty working set: an earlier batch is stored,
\* nothing is queued and the loop is back in select!.
C13_Witness ==
    /\ ENABLED TimerFire
    /\ buffer = <<>>
    /\ chan = <<>>
    /\ store # <<>>

\* The file_events tables of the store file.
FileEventsTables == {t \in db.tables : t.name = "file_events"}

\* C14: init_db is idempotent. Once it has run, the store file exists in
\* WAL mode with exactly one file_events table, the one with the five
\* defined columns; a further run leaves the file, its tables and every
\* row already present as they were.
C14_InitIdempotent ==
    /\ [](inits >= 1 => (db.exists /\ db.journal = "wal" /\ FileEventsTables = {FileEvents}))
    /\ [][(inits >= 1 /\ inits' = inits + 1) => (db' = db /\ store' = store)]_vars
    /\ [][inits' = inits + 1 =>
             /\ db' = init_db(init_db(db, store).file, init_db(db, store).rows).file
             /\ store' = init_db(init_db(db, store).file, init_db(db, store).rows).rows]_vars

\* init_db has run again on a store that already held rows and another table.
C14_Witness ==
    /\ inits >= 2
    /\ store # <<>>
    /\ OtherTable \in db.tables

\* The ids of the batches of the flushes that have not committed, in order.
RECURSIVE UncommittedIds(_)
UncommittedIds(fs) ==
    IF fs = <<>> THEN <<>>
    ELSE (IF Head(fs).pc = "done" THEN <<>> ELSE IdSeq(Head(fs).batch))
             \o UncommittedIds(Tail(fs))

\* C15: every dequeued record is in exactly one handed-off batch or still in
\* the working set: the dequeued records are, in order and without
\* repetition, those of the batches handed off so far followed by the
\* working set, and the batches handed off are those committed followed by
\* the one in flight. Immediately after every handoff the working set is
\* empty, and a handoff by the timer branch takes nothing from the channel.
C15_ExactlyOneBatch ==
    /\ [](dequeued = handoffs \o IdSeq(buffer))
    /\ [](\A j, k \in DOMAIN dequeued : j # k => dequeued[j] # dequeued[k])
    /\ [](handoffs = IdSeq(store) \o UncommittedIds(flushes))
    /\ [][handoffs' # handoffs => buffer' = <<>>]_vars
    /\ [][(handoffs' # handoffs /\ dequeued' = dequeued) => chan' = chan]_vars

\* The timer branch won against a pending receive: a batch below the
\* threshold is in flight while a record waits in the channel.
C15_Witness ==
    /\ writerPc = "flush_tick"
    /\ handoffs # <<>>
    /\ Len(handoffs) < BatchLimit
    /\ chan # <<>>

\* A sequence of ids keeps, for each notification, the order of its paths.
PathOrdered(ids) ==
    \A j, k \in DOMAIN ids : (j < k /\ ids[j][1] = ids[k][1]) => ids[j][2] < ids[k][2]

\* C16: order within a batch is the order of arrival. The rows a flush has
\* inserted followed by those it has yet to insert are its batch, whose
\* order is the order of dequeue; the store grows only at its end and its
\* rows are the first dequeued, in that order; and the records of one
\* notification are sent, dequeued and stored in the order of its paths.
C16_BatchOrder ==
    /\ [](\A i \in InFlight :
             IdSeq(flushes[i].tx) \o IdSeq(flushes[i].todo) = IdSeq(flushes[i].batch))
    /\ [](IsPrefix(IdSeq(store), dequeued))
    /\ [][IsPrefix(store, store')]_vars
    /\ [](PathOrdered(Sent))
    /\ [](\A u \in Units : PathOrdered(IdSeq(units[u].pending)))

\* The two records of one notification are stored in path order with a
\* record of another notification between them.
C16_Witness ==
    \E j, k, l \in DOMAIN store :
        /\ j < k /\ k < l
        /\ store[j].id[1] = store[l].id[1]
        /\ store[k].id[1] # store[j].id[1]
        /\ store[j].id[2] < store[l].id[2]

\* The loop is inside an awaited flush_records call.
Flushing == writerPc \in {"flush_tick", "flush_full"}

\* C17: flushing and accumulating are sequenced. A flush is in flight only
\* while the loop awaits it; during that time the working set is empty and
\* stays empty, nothing is dequeued, nothing further is handed off (no timer
\* fire is handled), and the channel only grows, by completed sends, up to
\* its capacity.
C17_FlushSequenced ==
    /\ [](InFlight # {} => Flushing)
    /\ [](Flushing => (buffer = <<>> /\ Len(chan) <= ChannelCapacity))
    /\ [][Flushing =>
             /\ dequeued' = dequeued
             /\ handoffs' = handoffs
             /\ buffer' = <<>>
             /\ Len(flushes') <= Len(flushes)
             /\ \/ IsPrefix(chan, chan')
                \/ writerPc' = "panicked"]_vars

\* During a flush the channel has filled up to its capacity and a task is
\* suspended in send behind it.
C17_Witness ==
    /\ InFlight # {}
    /\ buffer = <<>>
    /\ Len(chan) = ChannelCapacity
    /\ \E u \in Units : units[u].pc = "sending"

\* The writer task is inside its loop.
InLoop == writerPc \in {"select", "flush_tick", "flush_full"}

\* C18: the accumulator loop does not end on its own. While main awaits the
\* writer and no flush has failed the task is inside the loop, which it
\* leaves only by a failed flush; in select! a timer fire can always be
\* handled, also when every Sender is gone and the channel is drained, and
\* an awaited flush is either running or ready to be joined.
C18_LoopNeverEnds ==
    /\ []((Running /\ ~WriterFault) => InLoop)
    /\ [][(InLoop /\ ~InLoop') => (WriterFault /\ writerPc' = "panicked")]_vars
    /\ []((Running /\ writerPc = "select") => ENABLED TimerFire)
    /\ []((Running /\ writerPc = "select" /\ ~SendersOpen /\ chan = <<>>) =>
             (ENABLED WriterRecvClosed /\ ~ENABLED WriterRecv))
    /\ []((Running /\ Flushing /\ ~WriterFault) =>
             (InFlight # {} \/ ENABLED WriterFlushJoin))

\* Every Sender is gone and the channel is drained while the loop sits in
\* select!: recv yields None and only the timer is left.
C18_Witness ==
    /\ Running
    /\ writerPc = "select"
    /\ ~SendersOpen
    /\ chan = <<>>
    /\ ENABLED TimerFire

\* Some task has died of a failed send.
SendFailed == \E u \in Units : units[u].pc = "panicked"

\* C19: a send that fails because the Receiver is gone is fatal to the task
\* that made it and to nothing else. The step that panics the task leaves
\* its remaining records unsent, and every other task, the channel and the
\* watch loop as they were; the task never runs again; the watch loop is
\* still watching and, while notifications remain, can dispatch the next.
C19_SendFailureLocal ==
    /\ [][\A u \in Units :
             (units[u].pc # "panicked" /\ units'[u].pc = "panicked") =>
                 /\ units[u].pc = "sending" /\ ~ReceiverOpen
                 /\ units'[u].pending = units[u].pending
                 /\ chan' = chan
                 /\ watcherPc' = watcherPc
                 /\ dispatched' = dispatched
                 /\ \A v \in Units \ {u} : units'[v] = units[v]]_vars
    /\ [][\A u \in Units : units[u].pc = "panicked" => units'[u] = units[u]]_vars
    /\ [](SendFailed => watcherPc = "watching")
    /\ []((SendFailed /\ Alive /\ dispatched < MaxNotifications) =>
             ENABLED (\E e \in PipelineEvents : WatchDispatch(e)))

\* A task died holding the record whose send failed and one more, while the
\* watch loop is up and another task is still running.
C19_Witness ==
    \E u, v \in Units :
        /\ units[u].pc = "panicked"
        /\ Len(units[u].pending) >= 2
        /\ units[v].pc \in {"spawned", "sending"}
        /\ watcherPc = "watching"

\* The tasks suspended in send: the channel is full and the Receiver is there.
Suspended ==
    {u \in Units : units[u].pc = "sending" /\ ReceiverOpen /\ Len(chan) = ChannelCapacity}

\* C20: the watch loop is never stalled by the channel. Whenever the watch
\* is established and a notification remains, dispatching it is enabled,
\* whatever the channel holds and however many tasks are suspended in send;
\* the dispatch itself touches neither the channel nor any earlier task.
C20_WatchNeverStalled ==
    /\ []((watcherPc = "watching" /\ Alive /\ dispatched < MaxNotifications) =>
             ENABLED (\E e \in PipelineEvents : WatchDispatch(e)))
    /\ [][dispatched' # dispatched =>
             /\ dispatched' = dispatched + 1
             /\ chan' = chan
             /\ watcherPc' = "watching"
             /\ \A u \in Units \ {dispatched'} : units'[u] = units[u]]_vars

\* The channel is full, an earlier task is suspended in send, and the watch
\* loop has a further notification to dispatch.
C20_Witness ==
    /\ watcherPc = "watching"
    /\ Running
    /\ dispatched < MaxNotifications
    /\ Suspended # {}

\* As many tasks are suspended in send as were dispatched, more than the
\* channel can hold.
C20_SuspendedBeyondCapacity ==
    /\ Cardinality(Suspended) > ChannelCapacity
    /\ Cardinality(Suspended) = dispatched

====
